---- MODULE Spec2Model ----
(***************************************************************************)
(* The resumable parallel crawl engine of api-wilayah-indonesia            *)
(* (scrape.go: scrapeAll, processKabupatenParallel, processKabupaten,      *)
(* processKecamatan, handleShutdown, loadCheckpoint, saveToFile) and the   *)
(* scraper control handlers of main.go (startScraper, stopScraper).        *)
(***************************************************************************)
EXTENDS Integers, Sequences, FiniteSets, Bags, TLC

----------------------------------------------------------------------------
(* Bounds of the model *)

NumPro == 2       \* provinces returned by list_pro
NumKab == 2       \* regencies returned by list_kab for a province
NumKec == 1       \* districts returned by list_kec for a regency
NumDes == 1       \* villages returned by list_des for a district
MaxThreads == 2   \* largest worker count a run is started with
MaxRuns == 2      \* crawl invocations sharing the output directory
MaxFaults == 1    \* fetch / file failures injected over a behaviour
MaxCancelled == 1 \* invocations that get cancelled over a behaviour
MaxDays == 2      \* calendar days a behaviour spans
MaxStops == 2     \* stop requests counted per invocation

----------------------------------------------------------------------------
(* Upstream data: every endpoint answers a flat map code -> name.  The map *)
(* is a Go map: its keys are known, its iteration order is not.            *)

list_pro == 11 .. (10 + NumPro)
list_kab(p) == 1 .. NumKab
list_kec(p, k) == 1 .. NumKec
list_des(p, k, c) == 1 .. NumDes

Nama(level, id) == <<level, id>>

\* all orders in which `range` can walk a map with key set S
Perms(S) ==
    {s \in [1 .. Cardinality(S) -> S] : \A i, j \in 1 .. Cardinality(S) : s[i] = s[j] => i = j}

SeqIds(s) == {s[i].id : i \in 1 .. Len(s)}

\* The order of a collection below the province level is the order in which
\* workers finish or in which `range` walks a map; nothing reads it.  Such a
\* collection is kept as the multiset of its members, written in ascending
\* code order: append(s, x) puts x behind the members whose code is not larger.
append(s, x) ==
    LET n == Cardinality({j \in 1 .. Len(s) : s[j].id <= x.id})
    IN  SubSeq(s, 1, n) \o <<x>> \o SubSeq(s, n + 1, Len(s))

----------------------------------------------------------------------------
(* Data structures *)

Desa(d) == [id |-> d, nama |-> Nama("des", d)]
Kecamatan(c, des) == [id |-> c, nama |-> Nama("kec", c), des |-> des]
Kabupaten(k, kec) == [id |-> k, nama |-> Nama("kab", k), kec |-> kec]
Provinsi(p, kab) == [id |-> p, nama |-> Nama("pro", p), kab |-> kab]

\* a subtree is whole when it holds every child upstream lists, once
KecWhole(p, k, kec) ==
    /\ Len(kec.des) = Cardinality(list_des(p, k, kec.id))
    /\ SeqIds(kec.des) = list_des(p, k, kec.id)
KabWhole(p, kab) ==
    /\ Len(kab.kec) = Cardinality(list_kec(p, kab.id))
    /\ SeqIds(kab.kec) = list_kec(p, kab.id)
    /\ \A i \in 1 .. Len(kab.kec) : KecWhole(p, kab.id, kab.kec[i])
ProWhole(pro) ==
    /\ Len(pro.kab) = Cardinality(list_kab(pro.id))
    /\ SeqIds(pro.kab) = list_kab(pro.id)
    /\ \A i \in 1 .. Len(pro.kab) : KabWhole(pro.id, pro.kab[i])

\* the whole subtree of province p, children in ascending code order
WholePro(p) ==
    Provinsi(p, [k \in 1 .. NumKab |->
        Kabupaten(k, [c \in 1 .. NumKec |->
            Kecamatan(c, [d \in 1 .. NumDes |-> Desa(d)])])])

----------------------------------------------------------------------------
(* Files of the output directory.  A file is absent, unparseable (garbage  *)
(* or truncated by os.Create and not yet encoded), or holds a tree.        *)

WilayahData(pro) == [kind |-> "tree", pro |-> pro]
Absent == [kind |-> "absent", pro |-> <<>>]
Corrupt == [kind |-> "corrupt", pro |-> <<>>]
IsTree(c) == c.kind = "tree"

VARIABLES
    now,              \* the calendar day time.Now() falls on
    dateStr           \* scrapeAll: the day it read when it set up its paths


\* time.Now().Format("20060102")
Format(t) == <<"20250706", "20250707">>[t]

\* a checkpoint path that does not depend on the day
checkpointFileUndated == <<"checkpoint", Format(1)>>

\* the checkpoint path of day t
CheckpointOf(t) == <<"checkpoint", Format(t)>>

checkpointFile == <<"checkpoint", dateStr>>
finalFile == <<"wilayah_final", dateStr>>
tempFileOf(r) == <<"temp_wilayah", r>>
FileNames == {CheckpointOf(t) : t \in 1 .. MaxDays}
             \cup {<<"wilayah_final", Format(t)>> : t \in 1 .. MaxDays}
             \cup {tempFileOf(r) : r \in 1 .. MaxRuns}

\* checkpoint files a first invocation can find in the output directory
InitCheckpoints == {Absent, Corrupt, WilayahData(<<>>), WilayahData(<<WholePro(11)>>)}

VARIABLES
    mode,             \* "cli": scrape.go run from the shell; "api": started by the control plane
    run,              \* number of the current crawl invocation
    maxWorkers,       \* worker count of the invocation
    faults,           \* failures still to be injected
    files,            \* the output directory
    pc,               \* position of the goroutine running scrapeAll
    scraperState,     \* ScraperState: currentData, checkpointFile, tempFile, isRunning
    ctxDone,          \* the context of the invocation has been cancelled
    sig,              \* position of the signal handler goroutine (handleShutdown)
    allData,          \* the tree scrapeAll builds (allData.Pro)
    filteredProvinsi, \* pending provinces, in processing order
    i,                \* index of the current province in filteredProvinsi
    cancels,          \* invocations that may still get cancelled
    kabupatenItems,   \* regencies of the current province
    jobs,             \* channel of regencies: [buf, closed]
    sent,             \* regencies the sender goroutine has put on the channel
    results,          \* channel of regency subtrees: [buf, closed]
    kabupatenResults, \* regency subtrees collected for the current province
    worker,           \* worker goroutines of the current province: the bag of their states
    log,              \* what the invocation did so far (observation only)
    globalScraper,    \* main.go: the Scraper the control handlers point at (its number)
    scrapers,         \* the Scraper values made so far: the isRunning flag of each
    request,          \* start requests: position of each in startScraper
    crawl,            \* goroutines launched by startScraper
    reply,            \* what stopScraper answered last
    input,            \* the string getJSON decoded and handed to normalizeText
    text,             \* normalizeText: its parameter, rewritten in place
    replacements,     \* normalizeText: entries `range` has not walked yet
    normalized,       \* what the calls of normalizeText returned so far
    http              \* the request fiber routed last: route, keys sent, what the chain did

startVars == <<globalScraper, scrapers, request, crawl>>
normVars == <<input, text, replacements, normalized>>
controlVars == <<startVars, reply, normVars, http, now>>

engineVars == <<mode, run, dateStr, maxWorkers, faults, cancels, files, pc, scraperState, ctxDone, sig,
                allData, filteredProvinsi, i, kabupatenItems, jobs, sent, results,
                kabupatenResults, worker, log>>

vars == <<engineVars, controlVars>>

poolVars == <<kabupatenItems, jobs, sent, results, kabupatenResults, worker>>

NoJobs == [buf |-> {}, closed |-> FALSE]
NoChan == [buf |-> <<>>, closed |-> FALSE]
NoState == [currentData |-> FALSE, checkpointFile |-> <<>>, tempFile |-> <<>>, isRunning |-> FALSE]
IdleWorker(provID) == [pc |-> "range", provID |-> provID, kabID |-> 0, kec |-> <<>>,
                       kecLeft |-> {}, kecID |-> 0, des |-> <<>>, desLeft |-> {}]

\* what one invocation has done: fetches issued, file operations, failures
NoSummary == [final |-> FALSE, pro |-> {}, skipped |-> {}, lost |-> {}]
NoLog == [fetched |-> {}, ops |-> {}, failed |-> {}, loaded |-> <<>>,
          cancelAt |-> "none", atStart |-> <<>>, started |-> {}, saved |-> {},
          stops |-> 0, hckpt |-> FALSE, lost |-> {}, atMidnight |-> <<>>,
          prev |-> NoSummary]

----------------------------------------------------------------------------
(* Failure injection: a fetch or a file operation may fail while faults    *)
(* remain.                                                                 *)

Faulty == IF faults > 0 THEN {FALSE, TRUE} ELSE {FALSE}
Spend(fail) == faults' = IF fail THEN faults - 1 ELSE faults
Noted(l, fail, kind) == IF fail THEN [l EXCEPT !.failed = @ \cup {kind}] ELSE l
Fetched(l, endpoint, p) == [l EXCEPT !.fetched = @ \cup {<<endpoint, p>>}]
Did(l, op) == [l EXCEPT !.ops = @ \cup {op}]
Lost(l, fail, p, k, c) == IF fail THEN [l EXCEPT !.lost = @ \cup {<<p, k, c>>}] ELSE l

\* saveToFile, first half: os.Create truncates the file, or fails
saveCreate(filename, fail) ==
    files' = IF fail THEN files ELSE [files EXCEPT ![filename] = Corrupt]

\* saveToFile, second half: the encoder writes the tree, or fails
saveEncode(filename, data, fail) ==
    files' = IF fail THEN files ELSE [files EXCEPT ![filename] = WilayahData(data)]

\* loadCheckpoint that starts over from an empty tree when the file cannot be decoded
loadCheckpointLenient(filename, fail) ==
    IF files[filename] = Absent \/ files[filename] = Corrupt THEN [err |-> FALSE, data |-> <<>>]
    ELSE IF fail THEN [err |-> TRUE, data |-> <<>>]
    ELSE [err |-> FALSE, data |-> files[filename].pro]

\* loadCheckpoint: "empty" tree for a missing file, an error for a file
\* that cannot be opened or decoded
loadCheckpoint(filename, fail) ==
    IF files[filename] = Absent THEN [err |-> FALSE, data |-> <<>>]
    ELSE IF fail \/ files[filename] = Corrupt THEN [err |-> TRUE, data |-> <<>>]
    ELSE [err |-> FALSE, data |-> files[filename].pro]

\* a pool with one goroutine too many
StartWorkersExtra(provID) == [w \in {IdleWorker(provID)} |-> maxWorkers + 1]

\* lines 455-471: maxWorkers goroutines, all in the same state
StartWorkers(provID) == [w \in {IdleWorker(provID)} |-> maxWorkers]
tempFile == tempFileOf(run)
prov == filteredProvinsi[i]
muFree == sig = "armed"

----------------------------------------------------------------------------
(* scrapeAll, the goroutine that drives one crawl *)

\* lines 296-301: fresh context, isRunning = true
Begin ==
    /\ pc = "scrapeAll" /\ muFree
    /\ ctxDone' = FALSE
    /\ scraperState' = [scraperState EXCEPT !.isRunning = TRUE]
    /\ pc' = "paths"
    /\ UNCHANGED <<controlVars, mode, run, dateStr, maxWorkers, cancels, faults, files, sig, allData, filteredProvinsi, i,
                   poolVars, log>>

\* lines 309-320
SetPaths ==
    /\ pc = "paths" /\ muFree
    /\ dateStr' = Format(now)
    /\ scraperState' = [scraperState EXCEPT !.checkpointFile = checkpointFile',
                                            !.tempFile = tempFile]
    /\ pc' = "load"
    /\ UNCHANGED <<controlVars, mode, run, maxWorkers, cancels, faults, files, ctxDone, sig, allData,
                   filteredProvinsi, i, poolVars, log>>

\* lines 322-327
Load ==
    /\ pc = "load"
    /\ \E fail \in (IF IsTree(files[checkpointFile]) THEN Faulty ELSE {FALSE}) :
        LET r == loadCheckpoint(checkpointFile, fail) IN
        /\ Spend(fail)
        /\ IF r.err
           THEN /\ pc' = "defer"
                /\ log' = [log EXCEPT !.failed = @ \cup {"load"}]
                /\ UNCHANGED allData
           ELSE /\ pc' = "setdata"
                /\ allData' = r.data
                /\ log' = [log EXCEPT !.loaded = r.data]
    /\ UNCHANGED <<controlVars, mode, run, dateStr, maxWorkers, cancels, files, scraperState, ctxDone, sig,
                   filteredProvinsi, i, poolVars>>

\* lines 329-331
SetData ==
    /\ pc = "setdata" /\ muFree
    /\ scraperState' = [scraperState EXCEPT !.currentData = TRUE]
    /\ pc' = "list_pro"
    /\ UNCHANGED <<controlVars, mode, run, dateStr, maxWorkers, cancels, faults, files, ctxDone, sig, allData,
                   filteredProvinsi, i, poolVars, log>>

\* a filter that keeps every province of the list
FilterNone(provinsiItems) == provinsiItems

\* lines 357-372: the provinces of the list that the tree does not hold
Filter(provinsiItems) ==
    LET processedProIDs == SeqIds(allData)
    IN  SelectSeq(provinsiItems, LAMBDA p : p \notin processedProIDs)

\* lines 337-372
ListPro ==
    /\ pc = "list_pro"
    /\ \E fail \in Faulty :
        /\ Spend(fail)
        /\ log' = Lost(Noted(Fetched(log, "list_pro", 0), fail, "fetch"), fail, 0, 0, 0)
        /\ IF fail
           THEN pc' = "defer" /\ UNCHANGED <<filteredProvinsi, i>>
           ELSE /\ \E provinsiItems \in Perms(list_pro) :
                      filteredProvinsi' = Filter(provinsiItems)
                /\ i' = 1
                /\ pc' = "loop"
    /\ UNCHANGED <<controlVars, mode, run, dateStr, maxWorkers, cancels, files, scraperState, ctxDone, sig, allData, poolVars>>

\* lines 376-381: next pending province, unless the context is done
Loop ==
    /\ pc = "loop"
    /\ pc' = IF i > Len(filteredProvinsi) THEN "final_check"
             ELSE IF ctxDone THEN "defer"
             ELSE "list_kab"
    /\ UNCHANGED <<controlVars, mode, run, dateStr, maxWorkers, cancels, faults, files, scraperState, ctxDone, sig, allData,
                   filteredProvinsi, i, poolVars, log>>

\* a loop body that gives the crawl up when list_kab fails
ListKabFatal ==
    /\ pc = "list_kab"
    /\ \E fail \in Faulty :
        /\ Spend(fail)
        /\ IF fail
           THEN /\ log' = Noted(Fetched(log, "list_kab", prov), fail, "fetch")
                /\ pc' = "defer"
                /\ UNCHANGED <<i, poolVars>>
           ELSE /\ log' = [Fetched(log, "list_kab", prov) EXCEPT !.started = @ \cup {prov}]
                /\ kabupatenItems' = list_kab(prov)
                /\ jobs' = NoJobs
                /\ results' = NoChan
                /\ sent' = {}
                /\ worker' = StartWorkers(prov)
                /\ kabupatenResults' = <<>>
                /\ pc' = "collect"
                /\ UNCHANGED i
    /\ UNCHANGED <<controlVars, mode, run, dateStr, maxWorkers, cancels, files, scraperState, ctxDone, sig, allData,
                   filteredProvinsi>>

\* lines 386-405 and 447-489: fetch the regencies, start the pool
ListKab ==
    /\ pc = "list_kab"
    /\ \E fail \in Faulty :
        /\ Spend(fail)
        /\ IF fail
           THEN /\ log' = Noted(Fetched(log, "list_kab", prov), fail, "fetch")
                /\ i' = i + 1
                /\ pc' = "loop"
                /\ UNCHANGED poolVars
           ELSE /\ log' = [Fetched(log, "list_kab", prov) EXCEPT !.started = @ \cup {prov}]
                /\ kabupatenItems' = list_kab(prov)
                /\ jobs' = NoJobs
                /\ results' = NoChan
                /\ sent' = {}
                /\ worker' = StartWorkers(prov)
                /\ kabupatenResults' = <<>>
                /\ pc' = "collect"
                /\ UNCHANGED i
    /\ UNCHANGED <<controlVars, mode, run, dateStr, maxWorkers, cancels, files, scraperState, ctxDone, sig, allData,
                   filteredProvinsi>>

\* lines 491-497: for result := range results
Collect ==
    /\ pc = "collect"
    /\ IF results.buf # <<>>
       THEN /\ kabupatenResults' = append(kabupatenResults, Head(results.buf))
            /\ results' = [results EXCEPT !.buf = Tail(@)]
            /\ UNCHANGED pc
       ELSE /\ results.closed
            /\ pc' = "append"
            /\ UNCHANGED <<kabupatenResults, results>>
    /\ UNCHANGED <<controlVars, mode, run, dateStr, maxWorkers, cancels, faults, files, scraperState, ctxDone, sig, allData,
                   filteredProvinsi, i, kabupatenItems, jobs, sent, worker, log>>

\* an append that puts the province in front of the tree
AppendProvFront ==
    /\ pc = "append"
    /\ allData' = <<Provinsi(prov, kabupatenResults)>> \o allData
    /\ kabupatenResults' = <<>>
    /\ pc' = "ckpt_create"
    /\ UNCHANGED <<controlVars, mode, run, dateStr, maxWorkers, cancels, faults, files, scraperState, ctxDone, sig,
                   filteredProvinsi, i, kabupatenItems, jobs, sent, results, worker, log>>

\* lines 407-416
AppendProv ==
    /\ pc = "append"
    /\ allData' = Append(allData, Provinsi(prov, kabupatenResults))
    /\ kabupatenResults' = <<>>
    /\ pc' = "ckpt_create"
    /\ UNCHANGED <<controlVars, mode, run, dateStr, maxWorkers, cancels, faults, files, scraperState, ctxDone, sig,
                   filteredProvinsi, i, kabupatenItems, jobs, sent, results, worker, log>>

\* one half of a saveToFile call made by scrapeAll
OrchVarsKept == <<controlVars, mode, run, dateStr, maxWorkers, cancels, scraperState, ctxDone, sig, allData,
                  filteredProvinsi, poolVars>>

\* a per-province save under the key of the current day
CkptCreateToday ==
    /\ pc = "ckpt_create"
    /\ \E fail \in Faulty :
        /\ Spend(fail)
        /\ saveCreate(CheckpointOf(now), fail)
        /\ log' = Noted(log, fail, "write")
        /\ pc' = IF fail THEN "temp_create" ELSE "ckpt_encode"
    /\ UNCHANGED <<OrchVarsKept, i>>

\* lines 418-419: safeCheckpointSave, whose error is dropped
CkptCreate ==
    /\ pc = "ckpt_create"
    /\ \E fail \in Faulty :
        /\ Spend(fail)
        /\ saveCreate(checkpointFile, fail)
        /\ log' = Noted(log, fail, "write")
        /\ pc' = IF fail THEN "temp_create" ELSE "ckpt_encode"
    /\ UNCHANGED <<OrchVarsKept, i>>

CkptEncode ==
    /\ pc = "ckpt_encode"
    /\ \E fail \in Faulty :
        /\ Spend(fail)
        /\ saveEncode(checkpointFile, allData, fail)
        /\ log' = Noted(log, fail, "write")
        /\ pc' = "temp_create"
    /\ UNCHANGED <<OrchVarsKept, i>>

\* a loop body that writes no temp snapshot
TempCreateSkipped ==
    /\ pc = "temp_create"
    /\ pc' = "loop" /\ i' = i + 1
    /\ log' = [log EXCEPT !.saved = @ \cup {prov}]
    /\ UNCHANGED <<OrchVarsKept, faults, files>>

\* line 420: the temp snapshot, error dropped
TempCreate ==
    /\ pc = "temp_create"
    /\ \E fail \in Faulty :
        /\ Spend(fail)
        /\ saveCreate(tempFile, fail)
        /\ IF fail THEN /\ pc' = "loop" /\ i' = i + 1
                        /\ log' = Noted([log EXCEPT !.saved = @ \cup {prov}], fail, "write")
                   ELSE /\ pc' = "temp_encode" /\ UNCHANGED i
                        /\ log' = log
    /\ UNCHANGED OrchVarsKept

\* line 420 to 423: end of the loop body
TempEncode ==
    /\ pc = "temp_encode"
    /\ \E fail \in Faulty :
        /\ Spend(fail)
        /\ saveEncode(tempFile, allData, fail)
        /\ log' = Noted([log EXCEPT !.saved = @ \cup {prov}], fail, "write")
        /\ pc' = "loop" /\ i' = i + 1
    /\ UNCHANGED OrchVarsKept

\* a final step that does not look at the context
FinalCheckBlind ==
    /\ pc = "final_check"
    /\ pc' = "final_create"
    /\ UNCHANGED <<controlVars, mode, run, dateStr, maxWorkers, cancels, faults, files, scraperState, ctxDone, sig,
                   allData, filteredProvinsi, i, poolVars, log>>

\* lines 426-429: the last look at the context
FinalCheck ==
    /\ pc = "final_check"
    /\ pc' = IF ctxDone THEN "defer" ELSE "final_create"
    /\ UNCHANGED <<controlVars, mode, run, dateStr, maxWorkers, cancels, faults, files, scraperState, ctxDone, sig, allData,
                   filteredProvinsi, i, poolVars, log>>

\* line 430: saveToFile(allData, finalFile), error dropped
FinalCreate ==
    /\ pc = "final_create"
    /\ \E fail \in Faulty :
        /\ Spend(fail)
        /\ saveCreate(finalFile, fail)
        /\ log' = IF fail THEN Noted(Did(log, "final_failed"), fail, "write")
                          ELSE Did(log, "final_created")
        /\ pc' = IF fail THEN "remove" ELSE "final_encode"
    /\ UNCHANGED <<OrchVarsKept, i>>

FinalEncode ==
    /\ pc = "final_encode"
    /\ \E fail \in Faulty :
        /\ Spend(fail)
        /\ saveEncode(finalFile, allData, fail)
        /\ log' = IF fail THEN Noted(Did(log, "final_failed"), fail, "write")
                          ELSE Did(log, "final_written")
        /\ pc' = "remove"
    /\ UNCHANGED <<OrchVarsKept, i>>

\* a completed crawl that leaves its checkpoint behind
RemoveCheckpointSkipped ==
    /\ pc = "remove"
    /\ pc' = "defer"
    /\ UNCHANGED <<OrchVarsKept, i, faults, files, log>>

\* lines 436-439: os.Remove(checkpointFile)
RemoveCheckpoint ==
    /\ pc = "remove"
    /\ \E fail \in (IF files[checkpointFile] # Absent THEN Faulty ELSE {FALSE}) :
        /\ Spend(fail)
        /\ files' = IF fail THEN files ELSE [files EXCEPT ![checkpointFile] = Absent]
        /\ log' = IF fail \/ files[checkpointFile] = Absent
                  THEN Noted(log, fail, "remove")
                  ELSE Did(log, "checkpoint_removed")
        /\ pc' = "defer"
    /\ UNCHANGED <<OrchVarsKept, i>>

\* a return that leaves the running flag as it is
ReturnFlagKept ==
    /\ pc = "defer" /\ muFree
    /\ pc' = "ended"
    /\ UNCHANGED <<controlVars, mode, run, dateStr, maxWorkers, cancels, faults, files, scraperState, ctxDone,
                   sig, allData, filteredProvinsi, i, poolVars, log>>

\* lines 303-307: the deferred isRunning = false, then scrapeAll returns
Return ==
    /\ pc = "defer" /\ muFree
    /\ scraperState' = [scraperState EXCEPT !.isRunning = FALSE]
    /\ pc' = "ended"
    /\ UNCHANGED <<controlVars, mode, run, dateStr, maxWorkers, cancels, faults, files, ctxDone, sig, allData,
                   filteredProvinsi, i, poolVars, log>>

----------------------------------------------------------------------------
(* processKabupatenParallel: the sender, the workers, the closer *)

PoolVarsKept == <<controlVars, mode, run, dateStr, maxWorkers, cancels, files, pc, scraperState, ctxDone, sig, allData,
                  filteredProvinsi, i, kabupatenItems, kabupatenResults>>

\* lines 474-483: select between ctx.Done() and jobs <- kab; close(jobs) on return
SendJobs ==
    /\ worker # EmptyBag /\ ~jobs.closed
    /\ \/ \E kab \in kabupatenItems \ sent :
             /\ jobs' = [jobs EXCEPT !.buf = @ \cup {kab}]
             /\ sent' = sent \cup {kab}
       \/ /\ sent # kabupatenItems /\ ctxDone
          /\ jobs' = [jobs EXCEPT !.closed = TRUE]
          /\ UNCHANGED sent
       \/ /\ sent = kabupatenItems
          /\ jobs' = [jobs EXCEPT !.closed = TRUE]
          /\ UNCHANGED sent
    /\ UNCHANGED <<PoolVarsKept, faults, results, worker, log>>

\* a closer that does not wait for the workers
CloseResultsEarly ==
    /\ worker # EmptyBag /\ ~results.closed
    /\ results' = [results EXCEPT !.closed = TRUE]
    /\ UNCHANGED <<PoolVarsKept, faults, jobs, sent, worker, log>>

\* a closer that also waits for the jobs channel to be drained
CloseResultsDrained ==
    /\ worker # EmptyBag /\ ~results.closed
    /\ \A w \in BagToSet(worker) : w.pc = "done"
    /\ jobs.buf = {}
    /\ results' = [results EXCEPT !.closed = TRUE]
    /\ UNCHANGED <<PoolVarsKept, faults, jobs, sent, worker, log>>

\* lines 486-489: wg.Wait(); close(results)
CloseResults ==
    /\ worker # EmptyBag /\ ~results.closed
    /\ \A w \in BagToSet(worker) : w.pc = "done"
    /\ results' = [results EXCEPT !.closed = TRUE]
    /\ UNCHANGED <<PoolVarsKept, faults, jobs, sent, worker, log>>

\* Worker goroutines have no identity: `worker` is the bag of their states.
\* One goroutine in state w moves to state t.
Step(w, t) == (worker (-) SetToBag({w})) (+) SetToBag({t})

\* a receive that leaves the regency on the channel
WRangePeeks(w) ==
    /\ w.pc = "range"
    /\ IF jobs.buf # {}
       THEN \E kab \in jobs.buf :
            worker' = Step(w, [IdleWorker(w.provID) EXCEPT !.pc = "select", !.kabID = kab])
       ELSE /\ jobs.closed
            /\ worker' = Step(w, [IdleWorker(w.provID) EXCEPT !.pc = "done"])
    /\ UNCHANGED <<PoolVarsKept, faults, jobs, sent, results, log>>

\* line 459: for kab := range jobs
WRange(w) ==
    /\ w.pc = "range"
    /\ IF jobs.buf # {}
       THEN \E kab \in jobs.buf :
            /\ worker' = Step(w, [IdleWorker(w.provID) EXCEPT !.pc = "select", !.kabID = kab])
            /\ jobs' = [jobs EXCEPT !.buf = @ \ {kab}]
       ELSE /\ jobs.closed
            /\ worker' = Step(w, [IdleWorker(w.provID) EXCEPT !.pc = "done"])
            /\ UNCHANGED jobs
    /\ UNCHANGED <<PoolVarsKept, faults, sent, results, log>>

\* lines 460-463: the worker leaves when the context is done
WSelect(w) ==
    /\ w.pc = "select"
    /\ worker' = Step(w, IF ctxDone THEN [IdleWorker(w.provID) EXCEPT !.pc = "done"]
                                  ELSE [w EXCEPT !.pc = "kab_check"])
    /\ UNCHANGED <<PoolVarsKept, faults, jobs, sent, results, log>>

\* lines 464-467: a worker is done with its regency; a non-nil result is published
\* (result is <<>> for nil, <<kab>> otherwise)
Publish(w, result) ==
    /\ worker' = Step(w, IdleWorker(w.provID))
    /\ results' = [results EXCEPT !.buf = IF result = <<>> THEN @ ELSE append(@, result[1])]

\* a processKabupaten that does not look at the context
WKabCheckBlind(w) ==
    /\ w.pc = "kab_check"
    /\ worker' = Step(w, [w EXCEPT !.pc = "kab_fetch"])
    /\ UNCHANGED <<PoolVarsKept, faults, jobs, sent, results, log>>

\* processKabupaten, lines 501-513
WKabCheck(w) ==
    /\ w.pc = "kab_check"
    /\ IF ctxDone
       THEN Publish(w, <<>>)
       ELSE worker' = Step(w, [w EXCEPT !.pc = "kab_fetch"]) /\ UNCHANGED results
    /\ UNCHANGED <<PoolVarsKept, faults, jobs, sent, log>>

\* a processKabupaten that returns the regency, empty, when list_kec fails
WKabFetchKeeps(w) ==
    /\ w.pc = "kab_fetch"
    /\ \E fail \in Faulty :
        /\ Spend(fail)
        /\ log' = Lost(Noted(Fetched(log, "list_kec", w.provID), fail, "fetch"),
                       fail, w.provID, w.kabID, 0)
        /\ IF fail
           THEN Publish(w, <<Kabupaten(w.kabID, <<>>)>>)
           ELSE /\ worker' = Step(w, [w EXCEPT !.pc = "kab_loop",
                                                     !.kecLeft = list_kec(w.provID, w.kabID)])
                /\ UNCHANGED results
    /\ UNCHANGED <<PoolVarsKept, jobs, sent>>

\* processKabupaten, lines 515-520: list_kec
WKabFetch(w) ==
    /\ w.pc = "kab_fetch"
    /\ \E fail \in Faulty :
        /\ Spend(fail)
        /\ log' = Lost(Noted(Fetched(log, "list_kec", w.provID), fail, "fetch"),
                       fail, w.provID, w.kabID, 0)
        /\ IF fail
           THEN Publish(w, <<>>)
           ELSE /\ worker' = Step(w, [w EXCEPT !.pc = "kab_loop",
                                                     !.kecLeft = list_kec(w.provID, w.kabID)])
                /\ UNCHANGED results
    /\ UNCHANGED <<PoolVarsKept, jobs, sent>>

\* processKabupaten, lines 523-536: next district, or return the regency
WKabLoop(w) ==
    /\ w.pc = "kab_loop"
    /\ IF w.kecLeft = {} \/ ctxDone
       THEN Publish(w, <<Kabupaten(w.kabID, w.kec)>>)
       ELSE /\ \E c \in w.kecLeft :
                worker' = Step(w, [w EXCEPT !.pc = "kec_check", !.kecID = c,
                                                  !.kecLeft = @ \ {c}])
            /\ UNCHANGED results
    /\ UNCHANGED <<PoolVarsKept, faults, jobs, sent, log>>

\* lines 530-533: the district returned by processKecamatan joins kab.Kec
\* (kec is <<>> for nil, <<kecamatan>> otherwise)
Joined(w, kec) ==
    worker' = Step(w, [w EXCEPT !.pc = "kab_loop",
                                 !.kecID = 0, !.des = <<>>, !.desLeft = {},
                                 !.kec = IF kec = <<>> THEN @ ELSE append(@, kec[1])])

\* processKecamatan, lines 540-552
WKecCheck(w) ==
    /\ w.pc = "kec_check"
    /\ IF ctxDone
       THEN Joined(w, <<>>)
       ELSE worker' = Step(w, [w EXCEPT !.pc = "kec_fetch"])
    /\ UNCHANGED <<PoolVarsKept, faults, jobs, sent, results, log>>

\* processKecamatan, lines 554-559: list_des
WKecFetch(w) ==
    /\ w.pc = "kec_fetch"
    /\ \E fail \in Faulty :
        /\ Spend(fail)
        /\ log' = Lost(Noted(Fetched(log, "list_des", w.provID), fail, "fetch"),
                       fail, w.provID, w.kabID, w.kecID)
        /\ IF fail
           THEN Joined(w, <<>>)
           ELSE worker' = Step(w, [w EXCEPT !.pc = "kec_loop",
                               !.desLeft = list_des(w.provID, w.kabID, w.kecID)])
    /\ UNCHANGED <<PoolVarsKept, jobs, sent, results>>

\* processKecamatan, lines 561-575: next village, or return the district
WKecLoop(w) ==
    /\ w.pc = "kec_loop"
    /\ IF w.desLeft = {} \/ ctxDone
       THEN Joined(w, <<Kecamatan(w.kecID, w.des)>>)
       ELSE \E d \in w.desLeft :
                worker' = Step(w, [w EXCEPT !.des = append(@, Desa(d)),
                                                  !.desLeft = @ \ {d}])
    /\ UNCHANGED <<PoolVarsKept, faults, jobs, sent, results, log>>

Worker(w) ==
    \/ WRange(w) \/ WSelect(w)
    \/ WKabCheck(w) \/ WKabFetch(w) \/ WKabLoop(w)
    \/ WKecCheck(w) \/ WKecFetch(w) \/ WKecLoop(w)

----------------------------------------------------------------------------
(* Cancellation *)

\* pc values behind the last look at the context (lines 426-429)
PastLastCheck == {"final_create", "final_encode", "remove", "ended"}

Cancelled(l) ==
    IF l.cancelAt # "none" THEN l
    ELSE [l EXCEPT !.cancelAt = IF pc \in PastLastCheck \/ (pc = "defer" /\ l.ops # {})
                                 THEN "late" ELSE "early"]
Cancel ==
    /\ ctxDone \/ cancels > 0
    /\ cancels' = IF ctxDone THEN cancels ELSE cancels - 1
    /\ ctxDone' = TRUE
    /\ log' = [Cancelled(log) EXCEPT !.stops = IF @ < MaxStops THEN @ + 1 ELSE @]

\* a Stop that also forgets the tree when the context is already done
StopTwiceResets ==
    /\ Cancel
    /\ scraperState' = IF ctxDone THEN [scraperState EXCEPT !.currentData = FALSE]
                                  ELSE scraperState

\* Scraper.Stop: cancel() under the lock
Stop ==
    /\ Cancel
    /\ UNCHANGED scraperState

\* main.go, stopScraper: "stopped" and nothing else unless a crawl is running.
\* Between the test and the call the crawl can only end, and cancelling the
\* context of an ended crawl is read by nobody: test and call are one step.
stopScraper ==
    /\ mode = "api" /\ muFree
    /\ IF ~scraperState.isRunning
       THEN /\ reply' = "stopped"
            /\ UNCHANGED <<cancels, ctxDone, scraperState, log>>
       ELSE /\ Stop
            /\ reply' = "stopping"
    /\ UNCHANGED <<startVars, normVars, http, now, mode, run, dateStr, maxWorkers, faults, files, pc, sig, allData,
                   filteredProvinsi, i, poolVars>>

\* os.Exit: every goroutine of the process is gone
Exit ==
    /\ pc' = "ended" /\ sig' = "exited"
    /\ kabupatenItems' = {} /\ jobs' = NoJobs /\ results' = NoChan /\ sent' = {}
    /\ kabupatenResults' = <<>> /\ worker' = EmptyBag

HandlerKept == <<controlVars, mode, run, dateStr, maxWorkers, cancels, pc, scraperState, ctxDone, allData,
                 filteredProvinsi, i, poolVars>>

\* handleShutdown, lines 147-160: takes mu for good; exits at once when idle
HSignal ==
    /\ mode = "cli" /\ sig = "armed" /\ pc # "ended"
    /\ IF ~scraperState.isRunning
       THEN Exit /\ UNCHANGED <<ctxDone, log, cancels>>
       ELSE /\ Cancel
            /\ sig' = "ckpt_create"
            /\ UNCHANGED <<pc, poolVars>>
    /\ UNCHANGED <<controlVars, mode, run, dateStr, maxWorkers, faults, files, scraperState, allData,
                   filteredProvinsi, i>>

\* a handler that goes on to the temp snapshot without saving the checkpoint
HCkptSkipped ==
    /\ sig = "ckpt_create"
    /\ sig' = "temp_create"
    /\ UNCHANGED <<HandlerKept, faults, files, log>>

\* handleShutdown, lines 162-169: safeCheckpointSave(currentData, checkpointFile)
HCkptCreate ==
    /\ sig = "ckpt_create"
    /\ IF scraperState.currentData /\ scraperState.checkpointFile # <<>>
       THEN \E fail \in Faulty :
                /\ Spend(fail)
                /\ saveCreate(scraperState.checkpointFile, fail)
                /\ sig' = IF fail THEN "temp_create" ELSE "ckpt_encode"
                /\ log' = [log EXCEPT !.hckpt = fail]
       ELSE sig' = "temp_create" /\ UNCHANGED <<faults, files, log>>
    /\ UNCHANGED HandlerKept

\* The handler's encoder reads currentData.Pro holding scraperState.mu, while
\* scrapeAll appends to the same slice holding dataLock (lines 414-416): an
\* encode that meets the append is a data race, and a racing encode writes
\* the tree before the append, the tree after it, or no readable tree.
Torn == IF pc = "append" THEN BOOLEAN ELSE {FALSE}

HCkptEncode ==
    /\ sig = "ckpt_encode"
    /\ \E fail \in Faulty, torn \in Torn :
        /\ Spend(fail)
        /\ IF torn THEN files' = [files EXCEPT ![scraperState.checkpointFile] = Corrupt]
                   ELSE saveEncode(scraperState.checkpointFile, allData, fail)
    /\ sig' = "temp_create"
    /\ log' = [log EXCEPT !.hckpt = TRUE]
    /\ UNCHANGED HandlerKept

\* handleShutdown, lines 171-173
HTempCreate ==
    /\ sig = "temp_create"
    /\ IF scraperState.currentData /\ scraperState.tempFile # <<>>
       THEN \E fail \in Faulty :
                /\ Spend(fail)
                /\ saveCreate(scraperState.tempFile, fail)
                /\ sig' = IF fail THEN "exit" ELSE "temp_encode"
       ELSE sig' = "exit" /\ UNCHANGED <<faults, files>>
    /\ UNCHANGED <<HandlerKept, log>>

HTempEncode ==
    /\ sig = "temp_encode"
    /\ \E fail \in Faulty, torn \in Torn :
        /\ Spend(fail)
        /\ IF torn THEN files' = [files EXCEPT ![scraperState.tempFile] = Corrupt]
                   ELSE saveEncode(scraperState.tempFile, allData, fail)
    /\ sig' = "exit"
    /\ UNCHANGED <<HandlerKept, log>>

\* handleShutdown, lines 175-178
HExit ==
    /\ sig = "exit"
    /\ scraperState' = [scraperState EXCEPT !.isRunning = FALSE]
    /\ Exit
    /\ UNCHANGED <<controlVars, mode, run, dateStr, maxWorkers, cancels, faults, files, ctxDone, allData,
                   filteredProvinsi, i, log>>

handleShutdown ==
    HSignal \/ HCkptCreate \/ HCkptEncode \/ HTempCreate \/ HTempEncode \/ HExit

----------------------------------------------------------------------------
(* The control plane: main.go, startScraper.  Every request runs in its own *)
(* goroutine; the crawl a start launches runs in another.  The crawl is     *)
(* seen from outside: it sets isRunning of its Scraper when it begins and   *)
(* clears it when it returns.                                               *)

MaxStarts == 3    \* start requests over a behaviour

NewScraper == [isRunning |-> FALSE]
IdleRequest == [pc |-> "idle", overlap |-> FALSE]

\* Scraper.IsRunning
IsRunning(s) == scrapers[s].isRunning

\* crawls launched by a start that has been acknowledged, and not ended yet
Unended == {c \in 1 .. Len(crawl) : crawl[c].pc # "ended" /\ request[crawl[c].by].pc = "acked"}
\* crawls inside scrapeAll
Executing == {c \in 1 .. Len(crawl) : crawl[c].pc = "crawling"}

\* main.go lines 1081-1085: refuse when the current Scraper says it is running
StartCheck(r) ==
    /\ request[r].pc = "idle"
    /\ request' = [request EXCEPT ![r] = [pc |-> IF IsRunning(globalScraper) THEN "rejected"
                                                                            ELSE "new",
                                          overlap |-> Unended # {}]]
    /\ UNCHANGED <<engineVars, reply, normVars, http, now, globalScraper, scrapers, crawl>>

\* main.go lines 1093-1096: globalScraper = scraper.NewScraper(...)
StartNew(r) ==
    /\ request[r].pc = "new"
    /\ scrapers' = Append(scrapers, NewScraper)
    /\ globalScraper' = Len(scrapers) + 1
    /\ request' = [request EXCEPT ![r].pc = "go"]
    /\ UNCHANGED <<engineVars, reply, normVars, http, now, crawl>>

\* main.go lines 1099-1103: go func() { globalScraper.ScrapeAll() }()
StartGo(r) ==
    /\ request[r].pc = "go"
    /\ crawl' = Append(crawl, [pc |-> "go", s |-> 0, by |-> r])
    /\ request' = [request EXCEPT ![r].pc = "reply"]
    /\ UNCHANGED <<engineVars, reply, normVars, http, now, globalScraper, scrapers>>

\* main.go lines 1105-1109: "Scraper started successfully"
StartReply(r) ==
    /\ request[r].pc = "reply"
    /\ request' = [request EXCEPT ![r].pc = "acked"]
    /\ UNCHANGED <<engineVars, reply, normVars, http, now, globalScraper, scrapers, crawl>>

\* main.go line 1100: the goroutine reads globalScraper when it runs
CrawlDeref(c) ==
    /\ c \in DOMAIN crawl /\ crawl[c].pc = "go"
    /\ crawl' = [crawl EXCEPT ![c] = [@ EXCEPT !.pc = "scrapeAll", !.s = globalScraper]]
    /\ UNCHANGED <<engineVars, reply, normVars, http, now, globalScraper, scrapers, request>>

\* scrapeAll, lines 296-301: isRunning = true
CrawlBegin(c) ==
    /\ c \in DOMAIN crawl /\ crawl[c].pc = "scrapeAll"
    /\ scrapers' = [scrapers EXCEPT ![crawl[c].s].isRunning = TRUE]
    /\ crawl' = [crawl EXCEPT ![c].pc = "crawling"]
    /\ UNCHANGED <<engineVars, reply, normVars, http, now, globalScraper, request>>

\* scrapeAll, lines 303-307: the deferred isRunning = false
CrawlReturn(c) ==
    /\ c \in DOMAIN crawl /\ crawl[c].pc = "crawling"
    /\ scrapers' = [scrapers EXCEPT ![crawl[c].s].isRunning = FALSE]
    /\ crawl' = [crawl EXCEPT ![c].pc = "ended"]
    /\ UNCHANGED <<engineVars, reply, normVars, http, now, globalScraper, request>>

startScraper ==
    \E r \in 1 .. MaxStarts : StartCheck(r) \/ StartNew(r) \/ StartGo(r) \/ StartReply(r)

ScrapeAll ==
    \E c \in 1 .. MaxStarts : CrawlDeref(c) \/ CrawlBegin(c) \/ CrawlReturn(c)

\* main.go lines 1276-1280: runAPI makes the first Scraper
InitControl ==
    /\ scrapers = <<NewScraper>>
    /\ globalScraper = 1
    /\ request = [r \in 1 .. MaxStarts |-> IdleRequest]
    /\ crawl = <<>>
    /\ reply = ""

----------------------------------------------------------------------------
(* The scraper routes of the API server: main.go *)

\* SCRAPER_API_KEY, or the key runAPI generates: never empty while the server runs
apiKey == "key"
MaxRouted == 2    \* start requests routed over a behaviour
Routes == {"start", "stop", "status", "progress", "info"}

\* a middleware that asks for no key when none is sent
apiKeyMiddlewareLax(header, query) ==
    LET providedKey == IF header = "" THEN query ELSE header
    IN  IF providedKey = "" \/ providedKey = apiKey THEN "next" ELSE "403"

\* main.go lines 79-105: the status it answers, or "next" when it calls c.Next()
apiKeyMiddleware(header, query) ==
    LET providedKey == IF header = "" THEN query ELSE header
    IN  IF apiKey = "" THEN "next"
        ELSE IF providedKey = "" THEN "401"
        ELSE IF providedKey # apiKey THEN "403"
        ELSE "next"

\* start requests that have entered startScraper
Started == Cardinality({r \in 1 .. MaxStarts : request[r].pc # "idle"})

NoRequest == [route |-> "", header |-> "", query |-> "", status |-> "", before |-> 0]

\* the chain has called the handler of the route, which has not run yet
Routed(route) ==
    /\ http.route = route /\ http.status = "next"
    /\ IF route = "start" THEN Started = http.before ELSE reply = ""

\* main.go lines 1324-1332: /scraper/info is registered before the group's
\* Use(apiKeyMiddleware) and answers itself; every other route of the group
\* goes through the middleware first
Route(route, header, query) ==
    /\ \A t \in Routes : ~Routed(t)
    /\ route = "start" => Started < MaxRouted
    /\ LET status == IF route = "info" THEN "200" ELSE apiKeyMiddleware(header, query)
       IN  /\ http' = [route |-> route, header |-> header, query |-> query, status |-> status,
                       before |-> IF route = "start" THEN Started ELSE 0]
           /\ reply' = IF status = "next" THEN "" ELSE IF route = "info" THEN "info" ELSE status
    /\ UNCHANGED <<engineVars, startVars, normVars, now>>

\* main.go lines 1150-1161
getScraperStatus ==
    /\ Routed("status")
    /\ reply' = IF IsRunning(globalScraper) THEN "running" ELSE "stopped"
    /\ UNCHANGED <<engineVars, startVars, normVars, http, now>>

\* main.go lines 1122-1136: Stop() is called on the current Scraper unless it
\* says it is not running
StopRequest ==
    /\ Routed("stop")
    /\ reply' = IF IsRunning(globalScraper) THEN "stopping" ELSE "stopped"
    /\ UNCHANGED <<engineVars, startVars, normVars, http, now>>

\* main.go lines 1175-1178
getScraperProgress ==
    /\ Routed("progress")
    /\ reply' = "progress"
    /\ UNCHANGED <<engineVars, startVars, normVars, http, now>>

\* the routes of the group; a request sends no key, the key or another one,
\* as header and as parameter
scraperGroup ==
    \/ \E route \in Routes, header, query \in {"", apiKey, "bad"} : Route(route, header, query)
    \/ \E r \in 1 .. MaxStarts : Routed("start") /\ StartCheck(r)
    \/ \E r \in 1 .. MaxStarts : StartNew(r) \/ StartGo(r) \/ StartReply(r)
    \/ StopRequest
    \/ getScraperStatus
    \/ getScraperProgress

----------------------------------------------------------------------------
(* Lookup by code: main.go.  A code is a sequence of digits. *)

\* README, Kode Wilayah: the id string of a node, as upstream keys it and the
\* tree files hold it: 2 digits for a province and a regency, 3 for a
\* district and a village
ID(level, n) ==
    LET w == IF level \in {"pro", "kab"} THEN 2 ELSE 3
        digit == <<"0", "1", "2", "3", "4", "5", "6", "7", "8", "9">>
    IN  [k \in 1 .. w |-> digit[((n \div (10 ^ (w - k))) % 10) + 1]]

\* findProvinsi, findKabupaten, findKecamatan and the loop over kecamatan.Des:
\* the first node of s whose ID is id, or 0
find(s, level, id) ==
    LET hits == {j \in 1 .. Len(s) : ID(level, s[j].id) = id}
    IN  IF hits = {} THEN 0 ELSE CHOOSE j \in hits : \A h \in hits : j <= h

\* a lookup that cuts the district id one digit short
getWilayahInfoShort(tree, code) ==
    LET a == find(tree, "pro", SubSeq(code, 1, 2))
        b == find(tree[a].kab, "kab", SubSeq(code, 3, 4))
        c == find(tree[a].kab[b].kec, "kec", SubSeq(code, 5, 6))
        d == find(tree[a].kab[b].kec[c].des, "des", SubSeq(code, 7, Len(code)))
    IN  IF Len(code) \notin {2, 4, 7, 10} THEN [status |-> 400, path |-> <<>>]
        ELSE IF a = 0 \/ (Len(code) >= 4 /\ b = 0) \/ (Len(code) >= 7 /\ c = 0)
                \/ (Len(code) = 10 /\ d = 0)
             THEN [status |-> 404, path |-> <<>>]
        ELSE [status |-> 200,
              path |-> SubSeq(<<tree[a].nama, tree[a].kab[b].nama, tree[a].kab[b].kec[c].nama,
                                tree[a].kab[b].kec[c].des[d].nama>>,
                              1, CASE Len(code) = 2 -> 1 [] Len(code) = 4 -> 2
                                   [] Len(code) = 7 -> 3 [] OTHER -> 4)]

\* main.go lines 725-870: the code is cut by its length into the ids of the
\* levels, each looked up in its parent; the answer names the node and its
\* ancestors
getWilayahInfo(tree, code) ==
    LET a == find(tree, "pro", SubSeq(code, 1, 2))
        b == find(tree[a].kab, "kab", SubSeq(code, 3, 4))
        c == find(tree[a].kab[b].kec, "kec", SubSeq(code, 5, 7))
        d == find(tree[a].kab[b].kec[c].des, "des", SubSeq(code, 8, Len(code)))
    IN  IF Len(code) \notin {2, 4, 7, 10} THEN [status |-> 400, path |-> <<>>]
        ELSE IF a = 0 \/ (Len(code) >= 4 /\ b = 0) \/ (Len(code) >= 7 /\ c = 0)
                \/ (Len(code) = 10 /\ d = 0)
             THEN [status |-> 404, path |-> <<>>]
        ELSE [status |-> 200,
              path |-> SubSeq(<<tree[a].nama, tree[a].kab[b].nama, tree[a].kab[b].kec[c].nama,
                                tree[a].kab[b].kec[c].des[d].nama>>,
                              1, CASE Len(code) = 2 -> 1 [] Len(code) = 4 -> 2
                                   [] Len(code) = 7 -> 3 [] OTHER -> 4)]

----------------------------------------------------------------------------
(* Text normalization: a string is a sequence of characters *)

MaxLen == 4      \* pieces an upstream string is made of
MaxCalls == 2    \* calls of normalizeText made on one string, each on the result of the last

\* backslash, single quote, double quote, slash and an ordinary character
Chars == {"\\", "'", "\"", "/", "a"}

\* what upstream strings are made of: the characters and the tails of the
\* escaped code points
Pieces ==
    {<<c>> : c \in Chars} \cup {<<"u", "0", "0", "2", "7">>, <<"u", "0", "0", "2", "2">>}

RECURSIVE Flatten(_)
Flatten(ss) == IF ss = <<>> THEN <<>> ELSE Head(ss) \o Flatten(Tail(ss))

Inputs == {Flatten(ss) : ss \in UNION {[1 .. n -> Pieces] : n \in 0 .. MaxLen}}

\* normalizeText: the map literal
Replacements ==
    { [old |-> <<"\\", "'">>, new |-> <<"'">>],
      [old |-> <<"\\", "\"">>, new |-> <<"\"">>],
      [old |-> <<"\\", "\\">>, new |-> <<"\\">>],
      [old |-> <<"\\", "/">>, new |-> <<"/">>],
      [old |-> <<"\\", "u", "0", "0", "2", "7">>, new |-> <<"'">>],
      [old |-> <<"\\", "u", "0", "0", "2", "2">>, new |-> <<"\"">>] }

\* strings.ReplaceAll: the occurrences of old are taken from the left and do
\* not overlap; what a replacement puts in is not looked at again
RECURSIVE ReplaceAll(_, _, _)
ReplaceAll(s, old, new) ==
    IF Len(s) < Len(old) THEN s
    ELSE IF SubSeq(s, 1, Len(old)) = old
         THEN new \o ReplaceAll(SubSeq(s, Len(old) + 1, Len(s)), old, new)
         ELSE <<Head(s)>> \o ReplaceAll(Tail(s), old, new)

\* strings.Contains
Contains(s, old) ==
    \E k \in 1 .. Len(s) - Len(old) + 1 : SubSeq(s, k, k + Len(old) - 1) = old

\* s holds one of the recognized escape sequences
Escaped(s) == \E r \in Replacements : Contains(s, r.old)

\* one iteration of `for old, new := range replacements`; the runtime picks
\* the order in which range walks the map
Range(r) ==
    /\ r \in replacements
    /\ text' = ReplaceAll(text, r.old, r.new)
    /\ replacements' = replacements \ {r}
    /\ UNCHANGED <<engineVars, startVars, reply, http, now, input, normalized>>

\* `return text`; the next call is made on what this one returned
ReturnText ==
    /\ replacements = {}
    /\ Len(normalized) < MaxCalls
    /\ normalized' = Append(normalized, text)
    /\ replacements' = IF Len(normalized') < MaxCalls THEN Replacements ELSE {}
    /\ UNCHANGED <<engineVars, startVars, reply, http, now, input, text>>

normalizeText == (\E r \in Replacements : Range(r)) \/ ReturnText

----------------------------------------------------------------------------
(* Invocations *)

\* what the next invocation remembers of this one (observation only)
Skipped == {f[2] : f \in {g \in log.fetched : g[1] = "list_kab"}} \ log.started
Summary ==
    [final |-> "final_written" \in log.ops, pro |-> SeqIds(allData), skipped |-> Skipped,
     lost |-> log.lost]

\* the crawl is run again: a new process (cli) or a new Scraper (api)
Rerun ==
    /\ pc = "ended" /\ run < MaxRuns
    /\ run' = run + 1
    /\ pc' = "scrapeAll" /\ sig' = "armed"
    /\ scraperState' = NoState
    /\ ctxDone' = FALSE
    /\ allData' = <<>> /\ filteredProvinsi' = <<>> /\ i' = 1
    /\ kabupatenItems' = {} /\ jobs' = NoJobs /\ results' = NoChan /\ sent' = {}
    /\ kabupatenResults' = <<>> /\ worker' = EmptyBag
    /\ log' = [NoLog EXCEPT !.prev = Summary, !.atStart = files]
    /\ reply' = ""
    /\ UNCHANGED <<startVars, normVars, http, now, mode, dateStr, maxWorkers, faults, cancels, files>>

InitEngine ==
    /\ mode \in {"cli", "api"}
    /\ run = 1
    /\ now = 1 /\ dateStr = Format(now)
    /\ maxWorkers \in 1 .. MaxThreads
    /\ faults = MaxFaults
    /\ cancels = MaxCancelled
    /\ \E c \in InitCheckpoints :
        files = [f \in FileNames |-> IF f = checkpointFile THEN c ELSE Absent]
    /\ pc = "scrapeAll" /\ sig = "armed"
    /\ scraperState = NoState
    /\ ctxDone = FALSE
    /\ allData = <<>> /\ filteredProvinsi = <<>> /\ i = 1
    /\ kabupatenItems = {} /\ jobs = NoJobs /\ results = NoChan /\ sent = {}
    /\ kabupatenResults = <<>> /\ worker = EmptyBag
    /\ log = [NoLog EXCEPT !.atStart = files]
    /\ InitControl

\* no string is being normalized
Init ==
    /\ InitEngine
    /\ input = <<>> /\ text = <<>> /\ replacements = {} /\ normalized = <<>>
    /\ http = NoRequest

scrapeAll ==
    \/ Begin \/ SetPaths \/ Load \/ SetData \/ ListPro \/ Loop \/ ListKab \/ Collect
    \/ AppendProv \/ CkptCreate \/ CkptEncode \/ TempCreate \/ TempEncode
    \/ FinalCheck \/ FinalCreate \/ FinalEncode \/ RemoveCheckpoint \/ Return

processKabupatenParallel ==
    SendJobs \/ CloseResults \/ (\E w \in BagToSet(worker) : Worker(w))

Next == scrapeAll \/ processKabupatenParallel \/ stopScraper \/ handleShutdown

\* one invocation of the crawl
Spec == Init /\ [][Next]_vars

\* the crawl and its re-runs over the same output directory
ResumeThreads == 1
InitResume == Init /\ maxWorkers <= ResumeThreads
NextResume == Next \/ Rerun
SpecResume == InitResume /\ [][NextResume]_vars

\* one invocation whose goroutines are scheduled: a goroutine that can take a
\* step (its fetch or file write returns) takes one.  Signals and stop
\* requests come from outside and are not owed.
HandlerRuns == HCkptCreate \/ HCkptEncode \/ HTempCreate \/ HTempEncode \/ HExit
InitLive == Init /\ files[checkpointFile] = Absent
Fairness ==
    /\ WF_vars(scrapeAll)
    /\ WF_vars(processKabupatenParallel)
    /\ WF_vars(HandlerRuns)
SpecLive == InitLive /\ [][Next]_vars /\ Fairness

\* An endpoint answers a JSON object that maps a code to a value that is not
\* a string.  getJSON returns it without error (normalizeData passes such a
\* value on, lines 230-241); the type assertion on the name panics, nothing
\* recovers, and the Go runtime ends the process.
Panicked ==
    /\ pc' = "ended" /\ sig' = "panicked"
    /\ kabupatenItems' = {} /\ jobs' = NoJobs /\ results' = NoChan /\ sent' = {}
    /\ kabupatenResults' = <<>> /\ worker' = EmptyBag

PanicKept == <<controlVars, mode, run, dateStr, maxWorkers, cancels, faults, files, ctxDone, allData,
               filteredProvinsi, i>>

\* lines 337-355: nama.(string) in scrapeAll, whose deferred function runs
ListProOdd ==
    /\ pc = "list_pro" /\ muFree
    /\ log' = Fetched(log, "list_pro", 0)
    /\ scraperState' = [scraperState EXCEPT !.isRunning = FALSE]
    /\ Panicked
    /\ UNCHANGED PanicKept

\* lines 386-403: nama.(string) in scrapeAll, whose deferred function runs
ListKabOdd ==
    /\ pc = "list_kab" /\ muFree
    /\ log' = Fetched(log, "list_kab", prov)
    /\ scraperState' = [scraperState EXCEPT !.isRunning = FALSE]
    /\ Panicked
    /\ UNCHANGED PanicKept

\* lines 523-530: kecNama.(string) in a worker goroutine
WKabOdd(w) ==
    /\ w.pc = "kab_loop" /\ w.kecLeft # {} /\ ~ctxDone
    /\ Panicked
    /\ UNCHANGED <<PanicKept, scraperState, log>>

\* lines 562-571: desNama.(string) in a worker goroutine
WKecOdd(w) ==
    /\ w.pc = "kec_loop" /\ w.desLeft # {} /\ ~ctxDone
    /\ Panicked
    /\ UNCHANGED <<PanicKept, scraperState, log>>

\* one invocation against an upstream that may answer such an object
NextOdd == Next \/ ListProOdd \/ ListKabOdd \/ (\E w \in BagToSet(worker) : WKabOdd(w) \/ WKecOdd(w))
SpecOdd == Init /\ [][NextOdd]_vars

\* the calendar day changes while the program runs or between two runs
Midnight ==
    /\ now < MaxDays
    /\ now' = now + 1
    /\ log' = [log EXCEPT !.atMidnight = files]
    /\ UNCHANGED <<startVars, reply, normVars, http, mode, run, dateStr, maxWorkers, faults, cancels,
                   files, pc, scraperState, ctxDone, sig, allData, filteredProvinsi, i, poolVars>>

\* the crawl and its re-runs over the days
InitDays ==
    /\ mode \in {"cli", "api"}
    /\ run = 1
    /\ now = 1 /\ dateStr = Format(now)
    /\ maxWorkers = ResumeThreads
    /\ faults = 0
    /\ cancels = MaxCancelled
    /\ \E c \in InitCheckpoints \ {Corrupt} :
        files = [f \in FileNames |-> IF f = checkpointFile THEN c ELSE Absent]
    /\ pc = "scrapeAll" /\ sig = "armed"
    /\ scraperState = NoState
    /\ ctxDone = FALSE
    /\ allData = <<>> /\ filteredProvinsi = <<>> /\ i = 1
    /\ kabupatenItems = {} /\ jobs = NoJobs /\ results = NoChan /\ sent = {}
    /\ kabupatenResults = <<>> /\ worker = EmptyBag
    /\ log = [NoLog EXCEPT !.atStart = files]
    /\ InitControl
    /\ input = <<>> /\ text = <<>> /\ replacements = {} /\ normalized = <<>>
    /\ http = NoRequest
NextDays == NextResume \/ Midnight
SpecDays == InitDays /\ [][NextDays]_vars

\* processKabupatenParallel called for the first province, over a regency
\* list of any size, the empty one included, until it returns
InitPool ==
    /\ mode \in {"cli", "api"}
    /\ run = 1
    /\ now = 1 /\ dateStr = Format(now)
    /\ maxWorkers \in 1 .. MaxThreads
    /\ faults = MaxFaults
    /\ cancels = MaxCancelled
    /\ files = [f \in FileNames |-> Absent]
    /\ pc = "collect" /\ sig = "armed"
    /\ scraperState = [currentData |-> TRUE, checkpointFile |-> checkpointFile,
                       tempFile |-> tempFile, isRunning |-> TRUE]
    /\ ctxDone = FALSE
    /\ allData = <<>> /\ filteredProvinsi = [k \in 1 .. NumPro |-> 10 + k] /\ i = 1
    /\ \E n \in 0 .. NumKab : kabupatenItems = 1 .. n
    /\ jobs = NoJobs /\ results = NoChan /\ sent = {}
    /\ kabupatenResults = <<>> /\ worker = StartWorkers(filteredProvinsi[1])
    /\ log = [NoLog EXCEPT !.atStart = files,
                           !.fetched = {<<"list_pro", 0>>, <<"list_kab", filteredProvinsi[1]>>},
                           !.started = {filteredProvinsi[1]}]
    /\ InitControl
    /\ input = <<>> /\ text = <<>> /\ replacements = {} /\ normalized = <<>>
    /\ http = NoRequest
NextPool == processKabupatenParallel \/ Collect \/ stopScraper \/ handleShutdown
FairPool ==
    /\ WF_vars(Collect)
    /\ WF_vars(processKabupatenParallel)
    /\ WF_vars(HandlerRuns)
SpecPool == InitPool /\ [][NextPool]_vars /\ FairPool

\* the control plane taking start requests
InitLife == Init /\ mode = "api" /\ maxWorkers = MaxThreads /\ files[checkpointFile] = Absent
NextLife == startScraper \/ ScrapeAll
SpecLife == InitLife /\ [][NextLife]_vars

\* the API server taking requests on its scraper routes
SpecAuth == InitLife /\ [][scraperGroup \/ ScrapeAll]_vars

\* getJSON hands a decoded string to normalizeText; what it returns is
\* normalized again
InitNorm ==
    /\ InitEngine /\ mode = "cli" /\ maxWorkers = 1 /\ files[checkpointFile] = Absent
    /\ input \in Inputs
    /\ text = input
    /\ replacements = Replacements
    /\ normalized = <<>>
    /\ http = NoRequest
SpecNorm == InitNorm /\ [][normalizeText]_vars

----------------------------------------------------------------------------
(* Properties of one invocation (Spec) *)

\* no failure was injected and nobody cancelled
NoFailure == faults = MaxFaults /\ log.failed = {}
Clean == NoFailure /\ ~ctxDone
\* regency, district and village fetches issued so far
SubtreeFetches == {f \in log.fetched : f[1] # "list_pro"}
Checkpoint == files[checkpointFile]
WorkersDone == \A w \in BagToSet(worker) : w.pc = "done"
Busy == {w \in BagToSet(worker) : w.pc \notin {"range", "done"}}
ActiveWorkers == BagCardinality([w \in Busy |-> worker[w]])

\* C1: once a cancelled crawl has stopped, every province in the checkpoint
\* file holds every regency upstream lists for it, each with all its districts
\* and all their villages (no fetch or file operation having failed).
C1_PartialCancellationIntegrity ==
    (pc = "ended" /\ ctxDone /\ NoFailure /\ IsTree(Checkpoint)) =>
        \A k \in 1 .. Len(Checkpoint.pro) : ProWhole(Checkpoint.pro[k])

\* C2: regency, district and village fetches are issued only for provinces of
\* the upstream list that the loaded checkpoint does not hold; a crawl that
\* ends without cancellation and without failure leaves the loaded provinces,
\* unchanged and in their order, followed by the provinces that were pending.
C2_ResumeFromCheckpoint ==
    LET C == log.loaded
        pending == list_pro \ SeqIds(C)
    IN  /\ \A f \in SubtreeFetches : f[2] \in pending
        /\ (pc = "ended" /\ sig = "armed" /\ Clean) =>
              /\ Len(allData) = Len(C) + Cardinality(pending)
              /\ SubSeq(allData, 1, Len(C)) = C
              /\ {allData[k].id : k \in Len(C) + 1 .. Len(allData)} = pending
              /\ files[finalFile] = WilayahData(allData)

C2_Witness ==
    /\ pc = "ended" /\ sig = "armed" /\ Clean
    /\ log.loaded = <<WholePro(11)>>
    /\ <<"list_kab", 12>> \in log.fetched
    /\ Len(allData) = NumPro

\* C4: whenever the final artifact has been written, the tree in it holds
\* every province of the upstream province list.
C4_FinalHoldsEveryProvince ==
    "final_written" \in log.ops => list_pro \subseteq SeqIds(files[finalFile].pro)

\* C5: a crawl cancelled before the orchestrator's last look at the context
\* writes no final artifact and removes no file: the final artifact is as it
\* was at the start, and every file that exists stays.
C5_CancelledWritesNoFinal ==
    log.cancelAt = "early" =>
        /\ log.ops = {}
        /\ files[finalFile] = log.atStart[finalFile]
        /\ \A f \in FileNames : log.atStart[f] # Absent => files[f] # Absent

C5_Witness ==
    /\ log.cancelAt = "early" /\ pc = "ended"
    /\ Len(filteredProvinsi) > 0 /\ i > Len(filteredProvinsi)
    /\ IsTree(Checkpoint) /\ Len(Checkpoint.pro) = NumPro

\* C6: the checkpoint is removed only after the final artifact has been
\* written successfully.
C6_CheckpointKeptWhenFinalFails ==
    "checkpoint_removed" \in log.ops => "final_written" \in log.ops

\* C7: with an unparseable checkpoint file the invocation issues no fetch,
\* leaves every file as it was and never gets past the load; with no
\* checkpoint file the load does not fail and yields the empty tree.
C7_CorruptCheckpointStops ==
    /\ log.atStart[checkpointFile] = Corrupt =>
          /\ log.fetched = {} /\ files = log.atStart /\ allData = <<>>
          /\ pc \in {"scrapeAll", "paths", "load", "defer", "ended"}
    /\ log.atStart[checkpointFile] = Absent =>
          /\ "load" \notin log.failed
          /\ log.loaded = <<>>

C7_Witness ==
    /\ pc = "ended" /\ sig = "armed"
    /\ log.atStart[checkpointFile] = Corrupt /\ "load" \in log.failed

\* C8: at most maxWorkers regencies of the current province are being
\* processed at the same time.
C8_ConcurrencyBound == ActiveWorkers <= maxWorkers

C8_Witness == ActiveWorkers = maxWorkers /\ jobs.buf # {}

\* C9 as stated: when the regency list of a pending province is fetched, the
\* workers are gone and every pending province before it has been appended
\* and its checkpoint and temp snapshot writes have returned.
C9_AsStated ==
    pc = "list_kab" =>
        /\ WorkersDone
        /\ \A j \in 1 .. i - 1 :
              filteredProvinsi[j] \in SeqIds(allData) /\ filteredProvinsi[j] \in log.saved

\* C9, amended: when the regency list of a pending province is fetched, the
\* workers are gone and every province whose workers were started has been
\* appended and its checkpoint and temp snapshot writes have returned;
\* workers run only while scrapeAll collects their province.
C9_OneProvinceAtATime ==
    /\ pc = "list_kab" =>
          /\ WorkersDone
          /\ \A p \in log.started : p \in SeqIds(allData) /\ p \in log.saved
    /\ \A w \in BagToSet(worker) : w.pc # "done" => pc = "collect" /\ w.provID = prov

C9_Witness ==
    /\ pc = "list_kab" /\ i = 2
    /\ filteredProvinsi[1] \in log.started
    /\ worker # EmptyBag

----------------------------------------------------------------------------
(* Properties of a crawl and its re-runs (SpecResume) *)

\* no failure was injected and nobody cancelled, in this invocation or before
Undisturbed == NoFailure /\ cancels = MaxCancelled /\ sig = "armed"
\* provinces whose regency list this invocation has fetched
Refetched == {f[2] : f \in {g \in log.fetched : g[1] = "list_kab"}}

\* C3 as stated: after a crawl that wrote its final artifact, a re-run issues
\* no regency, district or village fetch for a province the first run
\* completed, and ends with the same set of completed provinces.
C3_AsStated ==
    (run > 1 /\ log.prev.final /\ Undisturbed) =>
        /\ \A f \in SubtreeFetches : f[2] \notin log.prev.pro
        /\ pc = "ended" => SeqIds(allData) = log.prev.pro

\* C3, amended: a re-run issues no regency, district or village fetch for a
\* province held by the checkpoint it loads.  A crawl that ran to completion
\* has removed its checkpoint: its undisturbed re-run loads the empty tree,
\* fetches every upstream province again and ends with the same set of
\* completed provinces as the first run.
C3_IdempotentResume ==
    /\ \A f \in SubtreeFetches : f[2] \notin SeqIds(log.loaded)
    /\ (run > 1 /\ log.prev.final /\ Undisturbed) =>
          /\ log.atStart[checkpointFile] = Absent
          /\ log.loaded = <<>>
          /\ pc = "ended" => (Refetched = list_pro /\ SeqIds(allData) = log.prev.pro)

C3_Witness ==
    /\ run > 1 /\ log.prev.final /\ Undisturbed /\ pc = "ended"
    /\ log.prev.pro = list_pro
    /\ <<"list_des", 11>> \in log.fetched
    /\ files[finalFile] = WilayahData(allData)

----------------------------------------------------------------------------
(* Properties of the control plane (SpecLife) *)

\* C10: at most one crawl is executing at any time, and a start issued while
\* a crawl launched by an earlier acknowledged start has not ended is
\* rejected.
C10_StartMutuallyExclusive ==
    /\ Cardinality(Executing) <= 1
    /\ \A r \in 1 .. MaxStarts : request[r].overlap => request[r].pc = "rejected"

----------------------------------------------------------------------------
(* Properties of stopping *)

\* everything of the engine but the context and the observation
StopKept == <<mode, run, dateStr, maxWorkers, faults, cancels, files, pc, scraperState, sig, allData,
              filteredProvinsi, i, poolVars, startVars, normVars, http, now>>

\* C11: a stop issued while no crawl is running changes no engine state and
\* answers "stopped"; a stop issued while the running crawl is already
\* cancelled changes nothing but the count of stops, and answers as the first.
C11_StopIdempotent ==
    [][stopScraper =>
        /\ ~scraperState.isRunning => (UNCHANGED engineVars /\ reply' = "stopped")
        /\ (scraperState.isRunning /\ ctxDone) =>
              /\ UNCHANGED <<StopKept, ctxDone>>
              /\ log' = [log EXCEPT !.stops = IF @ < MaxStops THEN @ + 1 ELSE @]
              /\ reply' = "stopping"]_vars

C11_Witness ==
    /\ mode = "api" /\ log.stops = MaxStops /\ ctxDone
    /\ pc = "ended" /\ reply = "stopped"

\* C12: once cancellation is signalled on a running crawl, the crawl ends and
\* the running flag becomes false.
C12_CancelledCrawlEnds ==
    (ctxDone /\ scraperState.isRunning) ~> (pc = "ended" /\ ~scraperState.isRunning)

C12_Witness ==
    /\ log.cancelAt = "early" /\ log.started # {} /\ kabupatenItems # sent
    /\ pc = "ended" /\ ~scraperState.isRunning

\* the signal handler found a crawl running and is past its checkpoint save
HandlerPastSave == sig \in {"temp_create", "temp_encode", "exit", "exited"} /\ log.cancelAt # "none"

\* C13: a signal that finds a crawl running cancels its context; when the tree
\* has been loaded, the handler gets past its checkpoint save, and the process
\* exits, only after a write of the tree to the checkpoint file has returned.
C13_InterruptSavesCheckpoint ==
    /\ (sig # "armed" /\ log.cancelAt # "none") => ctxDone
    /\ (HandlerPastSave /\ scraperState.currentData) => log.hckpt

C13_Witness ==
    /\ sig = "exited" /\ log.cancelAt = "early" /\ log.hckpt
    /\ log.atStart[checkpointFile] = Absent
    /\ IsTree(Checkpoint) /\ Len(Checkpoint.pro) > 0

----------------------------------------------------------------------------
(* Properties of failed fetches *)

\* the invocation has returned from scrapeAll, not cancelled
Returned == pc = "ended" /\ sig = "armed" /\ ~ctxDone

\* C14: a province whose regency-list fetch failed is not appended, the other
\* pending provinces of the run are processed, and the run after it fetches
\* the failed province again and none of the provinces the run completed.
C14_FailedProvinceRetried ==
    /\ \A p \in Skipped : p \notin SeqIds(allData)
    /\ (Returned /\ Skipped # {}) => SeqIds(allData) = list_pro \ Skipped
    /\ (run > 1 /\ log.prev.skipped # {}) =>
          /\ \A f \in SubtreeFetches : f[2] \notin log.prev.pro
          /\ (Returned /\ log.failed = {}) => log.prev.skipped \subseteq Refetched

\* regencies whose district list could not be fetched, and regencies that
\* lost the village list of some district
LostKab(p) == {l[2] : l \in {m \in log.lost : m[1] = p /\ m[3] = 0}}
LostKec(p, k) == {l[3] : l \in {m \in log.lost : m[1] = p /\ m[2] = k}} \ {0}
\* provinces this invocation has appended
Appended == {k \in 1 .. Len(allData) : allData[k].id \in log.started}
Kab(pro, k) == CHOOSE kab \in {pro.kab[j] : j \in 1 .. Len(pro.kab)} : kab.id = k

\* C15: in a province appended by a crawl that was not cancelled, a regency
\* whose district-list fetch failed is absent, and every other regency is
\* present once, whole unless a village-list fetch of its own failed.
C15_FailedRegencyOnly ==
    ~ctxDone =>
        \A n \in Appended : \A k \in list_kab(allData[n].id) :
            LET pro == allData[n]
                held == {j \in 1 .. Len(pro.kab) : pro.kab[j].id = k}
            IN  /\ k \in LostKab(pro.id) => held = {}
                /\ k \notin LostKab(pro.id) => Cardinality(held) = 1
                /\ (k \notin LostKab(pro.id) /\ LostKec(pro.id, k) = {}) =>
                      KabWhole(pro.id, Kab(pro, k))

C15_Witness ==
    /\ Returned /\ Appended # {}
    /\ \E n \in Appended : LostKab(allData[n].id) # {} /\ Len(allData[n].kab) = NumKab - 1

\* C16: in a province appended by a crawl that was not cancelled, a district
\* whose village-list fetch failed is still held by its regency.
C16_FailedDistrictKept ==
    ~ctxDone =>
        \A n \in Appended : \A k \in SeqIds(allData[n].kab) :
            LostKec(allData[n].id, k) \subseteq SeqIds(Kab(allData[n], k).kec)

\* the province-list fetch failed; some fetch below it failed
ListProFailed == <<0, 0, 0>> \in log.lost
FailedBelow == Skipped # {} \/ log.lost \ {<<0, 0, 0>>} # {}
\* scrapeAll got to its final step
EndOfPass == log.ops \cap {"final_created", "final_failed", "final_written"} # {}

FailureOutcome ==
    (Returned /\ "load" \notin log.failed) =>
        IF ListProFailed
        THEN SubtreeFetches = {} /\ files = log.atStart /\ log.ops = {}
        ELSE EndOfPass /\ SeqIds(allData) = SeqIds(log.loaded) \cup (list_pro \ Skipped)

Gaps(lost) == {l \in lost : l[2] # 0}

\* C18: a crawl that returns after a district-list or village-list fetch
\* failed leaves a checkpoint holding its tree, and the run after such a crawl
\* fetches districts again in every province that was left with a gap.
C18_GapsRefilled ==
    /\ (Returned /\ Gaps(log.lost) # {}) => Checkpoint = WilayahData(allData)
    /\ (run > 1 /\ Returned /\ log.failed = {}) =>
          \A l \in Gaps(log.prev.lost) : <<"list_kec", l[1]>> \in log.fetched

----------------------------------------------------------------------------
(* Properties of normalization *)

\* C19: normalizing is idempotent: what normalizeText returns holds none of
\* the recognized escape sequences, and normalizing it again returns it
\* unchanged.
C19_NormalizeIdempotent ==
    /\ Len(normalized) >= 1 => ~Escaped(normalized[1])
    /\ Len(normalized) >= 2 => normalized[2] = normalized[1]

----------------------------------------------------------------------------
(* Properties of the codes *)

\* no code occurs twice among the nodes of s
UniqueIds(s) == \A a, b \in 1 .. Len(s) : s[a].id = s[b].id => a = b

\* no province twice in the tree, no regency twice in a province
UniqueCodes(pro) == UniqueIds(pro) /\ \A a \in 1 .. Len(pro) : UniqueIds(pro[a].kab)

\* C20: over crawls, cancellations and re-runs on one checkpoint, no province
\* code occurs twice in the tree in memory, in the checkpoint, in a temp
\* snapshot or in the final artifact, and no regency code occurs twice within
\* a province.
C20_CodesUnique ==
    /\ UniqueCodes(allData)
    /\ \A f \in FileNames : UniqueCodes(files[f].pro)

\* a crawl was cancelled with provinces gathered and not finished; the re-run
\* resumed from them and wrote every province to the final artifact
C20_Witness ==
    /\ run = 2 /\ cancels = 0 /\ ~ctxDone
    /\ log.prev.pro # {} /\ ~log.prev.final
    /\ log.loaded # <<>>
    /\ SeqIds(allData) = list_pro /\ \A a \in 1 .. Len(allData) : ProWhole(allData[a])
    /\ files[finalFile] = WilayahData(allData)
    /\ IsTree(files[tempFileOf(1)])

----------------------------------------------------------------------------
(* Properties of the scraper routes *)

\* a step in which the handler of a protected route starts to run
HandlerEntered ==
    \/ http' = http /\ reply' # reply
    \/ \E r \in 1 .. MaxStarts : request[r].pc = "idle" /\ request'[r].pc # "idle"

\* the request sent no key; it sent a key and none that is the configured one
NoKey == http.header = "" /\ http.query = ""
WrongKey == ~NoKey /\ http.header # apiKey /\ http.query # apiKey

\* C21: the start, stop, status and progress handlers run only for a request
\* whose X-API-Key header or api_key parameter is the configured key; a
\* request without a key is answered 401 and one with a wrong key 403, and
\* answering so changes nothing of the scraper; /scraper/info is answered
\* whatever key is sent.
C21_KeyProtected ==
    /\ [][HandlerEntered =>
            /\ http.route \in Routes \ {"info"}
            /\ http.header = apiKey \/ http.query = apiKey]_vars
    /\ [][(http' # http /\ http'.status \in {"401", "403"}) =>
            /\ reply' = http'.status
            /\ UNCHANGED <<engineVars, startVars>>]_vars
    /\ [](http.route \in Routes \ {"info"} =>
            /\ NoKey => http.status = "401"
            /\ WrongKey => http.status = "403"
            /\ http.status \in {"401", "403"} => NoKey \/ WrongKey \/ http.header # apiKey)
    /\ [](http.route = "info" => http.status = "200" /\ reply = "info")

\* a start sent with a wrong key is answered 403 while the crawl that an
\* earlier start with the key launched is running
C21_Witness ==
    /\ http.route = "start" /\ WrongKey /\ reply = "403"
    /\ Started = 1
    /\ \E c \in DOMAIN crawl : crawl[c].pc = "crawling"

----------------------------------------------------------------------------
(* Properties of the lookup by code *)

----------------------------------------------------------------------------
(* Properties of the worker pool *)

\* how often regency k is found: waiting to be sent, on the jobs channel, in
\* the hands of a worker, on the results channel, among the collected
Places(k) ==
    LET In(q) == Cardinality({j \in 1 .. Len(q) : q[j].id = k})
        holders == {w \in BagToSet(worker) : w.kabID = k}
    IN  (IF k \in kabupatenItems \ sent THEN 1 ELSE 0) + (IF k \in jobs.buf THEN 1 ELSE 0)
        + BagCardinality([w \in holders |-> worker[w]])
        + In(results.buf) + In(kabupatenResults)

\* C23: while a province is processed with no cancellation and no failed
\* fetch, every regency of its list is in one place only (so in the hands of
\* at most one worker), and the province is appended with every regency of
\* the list once, whatever the worker count and the interleaving.
C23_EachRegencyOnce ==
    ~ctxDone =>
        /\ (pc \in {"collect", "append"} /\ {l \in log.lost : l[1] = prov} = {}) =>
              \A k \in kabupatenItems : Places(k) = 1
        /\ \A a \in Appended :
              {l \in log.lost : l[1] = allData[a].id} = {} =>
                  /\ Len(allData[a].kab) = Cardinality(list_kab(allData[a].id))
                  /\ SeqIds(allData[a].kab) = list_kab(allData[a].id)

\* two workers have delivered the regencies of the second province
C23_Witness ==
    /\ maxWorkers = MaxThreads /\ ~ctxDone /\ log.lost = {}
    /\ pc = "append" /\ Len(allData) >= 1
    /\ Len(kabupatenResults) = NumKab
    /\ Places(NumKab) = 1

----------------------------------------------------------------------------
(* Properties of cancellation *)

\* goroutines that have passed the check before a fetch and not issued it yet
PastCheck ==
    LET fetching == {w \in BagToSet(worker) : w.pc \in {"kab_fetch", "kec_fetch"}}
    IN  BagCardinality([w \in fetching |-> worker[w]]) + (IF pc = "list_kab" THEN 1 ELSE 0)

\* C24: once the context is done no goroutine passes a check into a fetch:
\* the fetches still issued are those whose check was passed before, at most
\* one per worker and one regency-list fetch of the orchestrator, and each
\* of them is issued once.
C24_NoFetchAfterObserved ==
    [][ctxDone => /\ PastCheck' <= PastCheck
                  /\ log'.fetched # log.fetched => PastCheck' < PastCheck \/ pc = "list_pro"]_vars

\* the context is done while one worker is about to fetch a village list and
\* another a district list
C24_Witness ==
    /\ ctxDone /\ PastCheck = 2
    /\ \E w \in BagToSet(worker) : w.pc = "kec_fetch"
    /\ \E w \in BagToSet(worker) : w.pc = "kab_fetch"

----------------------------------------------------------------------------
(* Properties of the tree *)

\* C25: the tree only grows at its end: every step of a crawl leaves the
\* provinces the tree held where they were, each with its id, name and
\* subtree, and the provinces loaded from the checkpoint stay the head of
\* the tree.
C25_AppendOnly ==
    /\ [][/\ Len(allData') >= Len(allData)
          /\ SubSeq(allData', 1, Len(allData)) = allData]_vars
    /\ [](/\ Len(allData) >= Len(log.loaded)
          /\ SubSeq(allData, 1, Len(log.loaded)) = log.loaded)

\* a province has been appended behind the one loaded from the checkpoint
C25_Witness ==
    /\ log.loaded # <<>>
    /\ Len(allData) = Len(log.loaded) + 1
    /\ pc = "ckpt_create"

----------------------------------------------------------------------------
(* Properties of the saves *)

Reported == log.failed \cap {"fetch", "load"}

\* the orchestrator's checkpoint save of a province ends in this step, failed
CkptFails == pc \in {"ckpt_create", "ckpt_encode"} /\ pc' = "temp_create" /\ faults' < faults

\* C27: a checkpoint write that fails after a province is reported and is
\* not fatal: the crawl goes on to the temp snapshot with the province in
\* the tree, and a checkpoint write that succeeds holds every province
\* appended so far.
C27_CheckpointFailureReported ==
    /\ [][CkptFails => "write" \in Reported']_vars
    /\ [][CkptFails => allData' = allData /\ prov \in SeqIds(allData)]_vars
    /\ [][(pc = "ckpt_encode" /\ pc' = "temp_create" /\ faults' = faults) =>
            files'[checkpointFile] = WilayahData(allData')]_vars

----------------------------------------------------------------------------
(* Properties of the locks *)

\* the interrupt handler's encoder is walking the tree
HandlerReads == sig \in {"ckpt_encode", "temp_encode"}

\* C28: the tree is not read while it is changed: no province is appended
\* while the interrupt handler's save is encoding the tree.
C28_ReadsExcludeAppend ==
    [][allData' # allData => ~HandlerReads]_vars

\* a saveToFile call on the checkpoint is between its os.Create and the end of
\* its encode
OrchWrites == pc = "ckpt_encode"
HandlerWrites == sig = "ckpt_encode"

\* C29: the checkpoint file is never half-written where it can be seen: the
\* per-province save of scrapeAll and the save of the interrupt handler never
\* write it at the same time, and when the process has exited after an
\* interrupt the file is a complete tree (or was never created), given that
\* the invocation did not start from an unreadable file.
C29_CheckpointNeverHalfWritten ==
    /\ ~(OrchWrites /\ HandlerWrites)
    /\ (sig = "exited" /\ log.atStart[checkpointFile] # Corrupt) =>
           files[checkpointFile] # Corrupt

\* C30: after a crawl whose province loop ran to its end without cancellation
\* and whose final file was written, no checkpoint is left once scrapeAll has
\* returned or the process has exited, an interrupt that arrives between the
\* final write and the clearing of isRunning included.
C30_NoCheckpointAfterCompletion ==
    (pc = "ended" /\ "final_written" \in log.ops) => files[checkpointFile] = Absent

\* the checkpoint keyed by the day the crawl set its paths on
Keyed == <<"checkpoint", dateStr>>
HasLoaded == pc = "setdata" \/ scraperState.currentData

\* C31: the checkpoint is keyed by the day the crawl starts on.  What a crawl
\* loads is the tree stored under the key of its own day when it began (the
\* empty tree when there is none, as on a later day); the provinces it takes
\* up are those of the upstream list that tree does not hold, so the provinces
\* of an earlier day's checkpoint are fetched again; and no step changes the
\* checkpoint of another day.
C31_CheckpointKeyedByDay ==
    /\ [](HasLoaded =>
            log.loaded = (IF IsTree(log.atStart[Keyed]) THEN log.atStart[Keyed].pro ELSE <<>>))
    /\ []((HasLoaded /\ filteredProvinsi # <<>>) =>
            {filteredProvinsi[k] : k \in 1 .. Len(filteredProvinsi)}
                = list_pro \ SeqIds(log.loaded))
    /\ [][\A t \in 1 .. MaxDays :
            CheckpointOf(t) # Keyed => files'[CheckpointOf(t)] = files[CheckpointOf(t)]]_vars

\* a second crawl, started a day after the first one left a checkpoint, has
\* loaded the empty tree and fetched the regencies of a province the earlier
\* checkpoint holds
C31_Witness ==
    /\ run = 2 /\ dateStr = Format(2) /\ HasLoaded /\ log.loaded = <<>>
    /\ log.prev.pro # {}
    /\ IsTree(files[CheckpointOf(1)]) /\ Len(files[CheckpointOf(1)].pro) > 0
    /\ <<"list_kab", files[CheckpointOf(1)].pro[1].id>> \in log.fetched

\* the day has changed since the crawl set its paths
Overtaken == Format(now) # dateStr /\ scraperState.checkpointFile # <<>>

\* C32 as stated: a crawl still running when the day changes writes a
\* checkpoint for the new day from then on: every step that changes a
\* checkpoint file changes the one keyed by the current day.
C32_NewCheckpointAtMidnight ==
    [][\A t \in 1 .. MaxDays :
          files'[CheckpointOf(t)] # files[CheckpointOf(t)] => t = now]_vars

\* C32 amended: a crawl still running when the day changes keeps the paths
\* of the day it started on: its date string and the checkpoint path its
\* interrupt handler uses stay as they were, the checkpoint it writes, and
\* removes when done, is the one of its start day, and the checkpoint keyed by
\* the new day stays as it was at midnight.
C32_CheckpointOfStartDay ==
    /\ [](Overtaken =>
            /\ scraperState.checkpointFile = Keyed
            /\ files[CheckpointOf(now)] = log.atMidnight[CheckpointOf(now)])
    /\ [][(Overtaken /\ pc' # "scrapeAll") =>
            /\ dateStr' = dateStr
            /\ \A f \in FileNames :
                  files'[f] # files[f] => f \in {Keyed, finalFile, tempFile}]_vars

\* a crawl overtaken by midnight has since saved a checkpoint of two
\* provinces under the key of its start day
C32_Witness ==
    /\ Overtaken /\ pc = "temp_create"
    /\ files[Keyed] # log.atMidnight[Keyed]
    /\ files[Keyed] = WilayahData(allData) /\ Len(allData) = NumPro
    /\ files[CheckpointOf(now)] = Absent

\* capacity of the jobs and results channels of the running pool
Capacity == Cardinality(kabupatenItems)

\* C33: the worker pool always finishes, for every number of regencies, every
\* worker count and every moment of cancellation: the results channel always
\* has room for what the busy workers may publish, it is closed only when
\* every worker has exited, the sender closes the jobs channel, and
\* processKabupatenParallel returns (unless the process exits first).
C33_PoolFinishes ==
    /\ [](Len(results.buf) + ActiveWorkers <= Capacity)
    /\ [][(~results.closed /\ results'.closed) => WorkersDone]_vars
    /\ (pc = "collect" /\ ~jobs.closed) ~> (jobs.closed \/ pc = "ended")
    /\ (pc = "collect") ~> (pc \in {"append", "ended"})

\* a pool of MaxThreads workers, cancelled before every regency was sent and
\* while a result was waiting on the channel, has returned
C33_Witness ==
    /\ pc = "append" /\ results.closed /\ jobs.closed /\ WorkersDone
    /\ maxWorkers = MaxThreads
    /\ ctxDone /\ kabupatenItems # sent /\ kabupatenResults # <<>>

\* the handler of the route answers in this step
Answers(route) == Routed(route) /\ reply' # reply

\* C34: an acknowledged start is controllable: while a crawl launched by an
\* acknowledged start has not ended, a status request is answered "running",
\* and a stop request is not answered "stopped" but calls Stop on the Scraper
\* that runs that crawl.
C34_AckedStartControllable ==
    /\ [][(Answers("status") /\ Unended # {}) => reply' = "running"]_vars
    /\ [][(Answers("stop") /\ Unended # {}) =>
            /\ reply' = "stopping"
            /\ \A c \in Unended : crawl[c].s = globalScraper]_vars

\* C35: however an invocation ends (the whole pass done, cancellation seen
\* in the province loop or at the final step, the checkpoint not loadable,
\* the province list not fetched, the process exited by the interrupt
\* handler) the running flag is false afterwards, and it is true from the
\* first step of scrapeAll until then.
C35_EveryEndClearsRunning ==
    /\ pc = "ended" => ~scraperState.isRunning
    /\ pc \notin {"scrapeAll", "ended"} => scraperState.isRunning

\* scrapeAll has returned from its checkpoint load error
C35_Witness ==
    /\ pc = "ended" /\ sig = "armed" /\ "load" \in log.failed
    /\ ~scraperState.isRunning /\ scraperState.checkpointFile = checkpointFile

\* normalizeText evaluated with the map walked in the order of the literal
RECURSIVE ReplaceEach(_, _)
ReplaceEach(s, rs) ==
    IF rs = <<>> THEN s ELSE ReplaceEach(ReplaceAll(s, rs[1].old, rs[1].new), Tail(rs))
Listed ==
    << [old |-> <<"\\", "'">>, new |-> <<"'">>],
       [old |-> <<"\\", "\"">>, new |-> <<"\"">>],
       [old |-> <<"\\", "\\">>, new |-> <<"\\">>],
       [old |-> <<"\\", "/">>, new |-> <<"/">>],
       [old |-> <<"\\", "u", "0", "0", "2", "7">>, new |-> <<"'">>],
       [old |-> <<"\\", "u", "0", "0", "2", "2">>, new |-> <<"\"">>] >>

\* C36: normalizeText is deterministic: whatever order the map is walked in,
\* the result for an input is the one the walk in the order of the literal
\* gives, so that two evaluations of the same input never differ.
C36_NormalizeDeterministic ==
    Len(normalized) >= 1 => normalized[1] = ReplaceEach(input, Listed)

\* C37: a response that parses as an object but maps a code to a value that
\* is not a string is a fetch failure of its subtree, whichever list it is
\* in: no invocation is ended by a panic.
C37_OddValueNotFatal == sig # "panicked"

====
